---------------------------- MODULE Spec2Model ----------------------------
(***************************************************************************)
(* szafka: a single-slot JSON persistence primitive.                       *)
(*                                                                         *)
(* Three facades share one algorithm:                                      *)
(*   "sync"  - src/src/sync.rs   Szafka       (std::fs, blocking)          *)
(*   "async" - src/src/async.rs  AsyncSzafka  (tokio::fs)                  *)
(*           - src/src/lib.rs    Szafka       (tokio::fs, delete = flush)  *)
(* The last two are the same text, statement for statement, but for the    *)
(* name of the delete; "async" stands for both.                            *)
(*                                                                         *)
(* The model is the filesystem under /tmp, the callers (threads or tasks)  *)
(* with the position of each inside the operation it runs, and tokio's     *)
(* blocking pool.  Every system call of an operation is one step, so that  *)
(* the steps of several callers interleave as the operating system lets    *)
(* them.                                                                   *)
(***************************************************************************)
EXTENDS Integers, Sequences, FiniteSets, TLC

VARIABLES
    fs,      \* path -> directory entry (absent, directory, file with inode)
    inodes,  \* inode -> [live, data]: the bytes of each file
    pc,      \* caller -> the step its current call is at
    call,    \* caller -> the locals of its current call
    ret,     \* caller -> what its last finished call returned
    bg,      \* tokio's blocking pool: writes handed over, not yet performed
    ghost,   \* slot -> the last thing that happened to its path (history)
    seen,    \* what gets have found in a file another save was writing (history)
    ncalls,  \* caller -> the calls it has made, where they are limited
    procs,   \* the callers that exist in this run
    slots,   \* the slots they hold
    facade,  \* the facade the program is built on
    limit    \* the calls each caller makes at most; 0: any number

vars == <<fs, inodes, pc, call, ret, bg, ghost, seen, ncalls, procs, slots,
          facade, limit>>

\* What a run is set up with and never changes.
setup == <<procs, slots, facade, limit>>

---------------------------------------------------------------------------
(* Bounds *)

\* Writes tokio's blocking pool may hold at once.
MaxBg == 1

\* Callers in the concurrent runs.
NProcs == 2

\* Calls each caller makes in the concurrent runs.
MaxCalls == 2

\* Calls the caller with two slots makes.
MaxDirCalls == 3

---------------------------------------------------------------------------
(* Paths: the tests' "/tmp/szafka/subdir/file", relative to /tmp *)

TmpDir == << >>
SzafkaDir == <<"szafka">>
SubdirPath == <<"szafka", "subdir">>
FilePath == <<"szafka", "subdir", "file">>

Paths == {TmpDir, SzafkaDir, SubdirPath, FilePath}

\* The paths slots are constructed with: new(path) stores the path and does
\* nothing else.
Slots == {FilePath, SubdirPath}

Facades == {"sync", "async"}

AllProcs == 1..NProcs

Inos == 1..(Cardinality(Slots) + NProcs)

\* std::path::Path::parent
parent(path) == SubSeq(path, 1, Len(path) - 1)

\* The path itself and everything above it.
Ancestors(path) == {SubSeq(path, 1, k) : k \in 0..Len(path)}

Absent == [kind |-> "absent", ino |-> 0]
Directory == [kind |-> "dir", ino |-> 0]
RegularFile(i) == [kind |-> "file", ino |-> i]

FreeInode == [live |-> FALSE, data |-> << >>]

\* std::path::Path::exists: any entry at all, file or directory.
path_exists(fsv, path) == fsv[path].kind # "absent"

---------------------------------------------------------------------------
(* The codec: serde_json on a payload type with one numeric field.  A byte *)
(* of the file is a token: "{" (the opening of the pretty-printed object   *)
(* up to the value), a decimal digit, "}" (the closing), "x" (a byte that  *)
(* is no JSON) and "z" (the NUL byte a write past the end leaves behind).  *)

DigitToks == <<"0", "1", "2", "3", "4", "5", "6", "7", "8", "9">>

IsDigit(b) == \E i \in 1..Len(DigitToks) : DigitToks[i] = b

DigitVal(b) == (CHOOSE i \in 1..Len(DigitToks) : DigitToks[i] = b) - 1

RECURSIVE Digits(_)
Digits(n) ==
    IF n < Len(DigitToks) THEN <<DigitToks[n + 1]>>
    ELSE Digits(n \div Len(DigitToks)) \o <<DigitToks[(n % Len(DigitToks)) + 1]>>

\* The payload values callers save; a negative one stands for a value whose
\* Serialize implementation reports an error.
Payloads == {-1, 1, 10}

Encodable(v) == v >= 0

\* serde_json::to_string_pretty
to_string_pretty(v) == <<"{">> \o Digits(v) \o <<"}">>

\* One step of serde_json's parser.
ParseByte(st, b) ==
    CASE st.q = "start" /\ b = "{" -> [q |-> "open", n |-> 0]
      [] st.q = "open" /\ b = "0" -> [q |-> "zero", n |-> 0]
      [] st.q = "open" /\ IsDigit(b) /\ b # "0" -> [q |-> "num", n |-> DigitVal(b)]
      [] st.q = "num" /\ IsDigit(b) ->
            [q |-> "num", n |-> st.n * Len(DigitToks) + DigitVal(b)]
      [] st.q \in {"num", "zero"} /\ b = "}" -> [q |-> "done", n |-> st.n]
      [] OTHER -> [q |-> "err", n |-> 0]

RECURSIVE Parse(_)
Parse(bytes) ==
    IF bytes = << >> THEN [q |-> "start", n |-> 0]
    ELSE ParseByte(Parse(SubSeq(bytes, 1, Len(bytes) - 1)), bytes[Len(bytes)])

\* A reader that takes an empty file for the default value.
from_reader_empty_is_default(bytes) ==
    IF bytes = << >> \/ Parse(bytes).q = "done"
    THEN [ok |-> TRUE, val |-> Parse(bytes).n]
    ELSE [ok |-> FALSE, val |-> 0]

\* serde_json::from_reader on the whole content: the value, or no value.
from_reader(bytes) ==
    IF Parse(bytes).q = "done" THEN [ok |-> TRUE, val |-> Parse(bytes).n]
    ELSE [ok |-> FALSE, val |-> 0]

---------------------------------------------------------------------------
(* The Error enum of lib.rs *)

Error == {"SerdeError", "CreateParentError", "OpenFileError", "WriteFileError",
          "RemoveFileError", "ChangeFileLengthError"}

---------------------------------------------------------------------------
(* File contents *)

RECURSIVE Nuls(_)
Nuls(n) == IF n <= 0 THEN << >> ELSE <<"z">> \o Nuls(n - 1)

\* write(2) on a file opened with O_APPEND: the offset is not looked at.
WriteAt_append(data, off, chunk) == data \o chunk

\* write(2) of `chunk` at offset `off` into a file holding `data`.
WriteAt(data, off, chunk) ==
    LET padded == IF off > Len(data) THEN data \o Nuls(off - Len(data)) ELSE data
    IN  SubSeq(padded, 1, off) \o chunk
            \o SubSeq(padded, off + Len(chunk) + 1, Len(padded))

\* The bytes at a path, << >> when there is no file.
Content(fsv, inov, path) ==
    IF fsv[path].kind = "file" THEN inov[fsv[path].ino].data ELSE << >>

\* The lowest inode number not in use.
NewIno(inov) ==
    CHOOSE i \in Inos : ~inov[i].live /\ \A j \in Inos : j < i => inov[j].live

\* An inode can be read while a path or an open handle names it.
Referenced(fsv, callv) ==
    {fsv[q].ino : q \in Paths} \cup {callv[p].ino : p \in AllProcs}

\* The inodes that can still be read; the others are free again.
Gc(inov, fsv, callv) ==
    [i \in Inos |-> IF i \in Referenced(fsv, callv) THEN inov[i] ELSE FreeInode]

\* The pending writes that can still be seen.  A write to a file that no
\* path and no handle names changes nothing anyone can read: it is left out.
RECURSIVE Visible(_, _, _)
Visible(bgv, fsv, callv) ==
    IF bgv = << >> THEN << >>
    ELSE IF Head(bgv).ino \in Referenced(fsv, callv)
         THEN <<Head(bgv)>> \o Visible(Tail(bgv), fsv, callv)
         ELSE Visible(Tail(bgv), fsv, callv)

---------------------------------------------------------------------------
(* Calls *)

\* The locals of a call: the operation, the slot's path, save's argument
\* and what is left of its bytes to write, the open file and the offset of
\* its handle, the bytes get has read, whether save made directories,
\* whether get could open the path and remove found something to delete.
\* History: over, save opened a file longer than what it writes; conc, the
\* value of the save that was writing the file when get opened it or when
\* save emptied it; pre, the bytes at the path when save was called.
NoCall == [op |-> "none", slot |-> << >>, arg |-> 0, data |-> << >>,
           ino |-> 0, off |-> 0, buf |-> << >>, mk |-> FALSE, found |-> FALSE,
           over |-> FALSE, conc |-> << >>, pre |-> << >>]

NewCall(op, s, v) == [NoCall EXCEPT !.op = op, !.slot = s, !.arg = v]

\* What a call returned: res is "Ok" or the Error variant, val the value in
\* get's Ok, flag the answer of exists.  io: the operating system failed a
\* system call of it.  arg, buf, mk, found: the call's locals as it ended.
NoRet == [op |-> "none", slot |-> << >>, arg |-> 0, res |-> "none", val |-> 0,
          flag |-> FALSE, io |-> FALSE, buf |-> << >>, mk |-> FALSE,
          found |-> FALSE]

Result(c, res, val) ==
    [op |-> c.op, slot |-> c.slot, arg |-> c.arg, res |-> res, val |-> val,
     flag |-> FALSE, io |-> FALSE, buf |-> c.buf, mk |-> c.mk, found |-> c.found]

\* History of a slot's path: the last call that changed it with success,
\* with no other call running meanwhile, and nothing else since ("save" with
\* the value, whether that save made the directories and whether it wrote
\* over something longer, "remove" with the number of removes in a row, up to
\* two), "saving" while a save runs that no other call has met so far,
\* "cancel" with the step a save was dropped at before it took it,
\* "none" before anything, "other" after anything else: a failed call, a call
\* under way, another program's write.
Untouched ==
    [mut |-> "none", val |-> 0, mk |-> FALSE, over |-> FALSE, at |-> "none"]
Saved(c) ==
    [mut |-> "save", val |-> c.arg, mk |-> c.mk, over |-> c.over, at |-> "none"]
Removed(g) ==
    [mut |-> "remove", val |-> IF g.mut = "remove" THEN 2 ELSE 1, mk |-> FALSE,
     over |-> FALSE, at |-> "none"]
Cancelled(c, step) ==
    [mut |-> "cancel", val |-> c.arg, mk |-> c.mk, over |-> c.over, at |-> step]
Saving ==
    [mut |-> "saving", val |-> 0, mk |-> FALSE, over |-> FALSE, at |-> "none"]
Other ==
    [mut |-> "other", val |-> 0, mk |-> FALSE, over |-> FALSE, at |-> "none"]

\* The new state of the disk and of the callers, with what can no longer be
\* read dropped.
Commit(fs2, ino2, call2, bg2) ==
    /\ fs' = fs2
    /\ call' = call2
    /\ bg' = Visible(bg2, fs2, call2)
    /\ inodes' = Gc(ino2, fs2, call2)

\* Caller p's call ends with the result r.
Return(p, fs2, ino2, r) ==
    /\ pc' = [pc EXCEPT ![p] = "idle"]
    /\ ret' = [ret EXCEPT ![p] = r]
    /\ Commit(fs2, ino2, [call EXCEPT ![p] = NoCall], bg)

\* Caller p's call goes on at `step`.
Goto(p, step, fs2, ino2, c2) ==
    /\ pc' = [pc EXCEPT ![p] = step]
    /\ ret' = ret
    /\ Commit(fs2, ino2, [call EXCEPT ![p] = c2], bg)

Idle(p) == p \in procs /\ pc[p] = "idle"

\* Caller p makes one more call, if the program it runs has calls left.
Called(p) ==
    /\ limit = 0 \/ ncalls[p] < limit
    /\ ncalls' = IF limit = 0 THEN ncalls ELSE [ncalls EXCEPT ![p] = @ + 1]
    /\ UNCHANGED <<seen, setup>>

At(p, step) == p \in procs /\ pc[p] = step

\* The history g a call of caller p leaves when it returns, if no other
\* caller is inside a call then.
After(p, g) == IF \A q \in procs \ {p} : pc[q] = "idle" THEN g ELSE Other

\* get's open failure let through `?` as if it were serde's.
ErrorOf_open_as_serde(step) ==
    CASE step = "save_create_dir_all" -> "CreateParentError"
      [] step = "save_open" -> "OpenFileError"
      [] step = "save_set_len" -> "ChangeFileLengthError"
      [] step = "save_write_all" -> "WriteFileError"
      [] step = "remove_file" -> "RemoveFileError"
      [] OTHER -> "SerdeError"

\* The encoding failure mapped like the write's failure.
ErrorOf_encode_as_write(step) ==
    CASE step = "save_create_dir_all" -> "CreateParentError"
      [] step \in {"save_open", "get_open"} -> "OpenFileError"
      [] step = "save_set_len" -> "ChangeFileLengthError"
      [] step \in {"save_call", "save_write_all"} -> "WriteFileError"
      [] step = "remove_file" -> "RemoveFileError"
      [] OTHER -> "SerdeError"

\* What each step's failure is mapped to, by its map_err or by `?` with
\* #[from] serde_json::Error.
ErrorOf(step) ==
    CASE step = "save_call" -> "SerdeError"
      [] step = "save_create_dir_all" -> "CreateParentError"
      [] step = "save_open" -> "OpenFileError"
      [] step = "save_set_len" -> "ChangeFileLengthError"
      [] step = "save_write_all" -> "WriteFileError"
      [] step = "get_open" -> "OpenFileError"
      [] step = "get_from_reader" -> "SerdeError"
      [] step = "remove_file" -> "RemoveFileError"

\* How the suspension facade performs each step: as a tokio::fs future it
\* awaits (create_dir_all, open, set_len, write_all, remove_file), where the
\* task yields, or, for the read of get, as serde_json::from_reader on the
\* std file that file.into_std().await gave back (async.rs 106, lib.rs 125):
\* read(2) calls made on the calling task, with no await around them.
Awaited(step) ==
    step \in {"save_create_dir_all", "save_open", "save_set_len",
              "save_write_all", "get_open", "remove_file"}

---------------------------------------------------------------------------
(* save: sync.rs 41-66, async.rs 43-72, lib.rs 62-91 *)

\* let file_contents = serde_json::to_string_pretty(data)?; then the check
\* `if !path.exists()` on the parent.  A value that does not encode ends the
\* call before anything on disk is looked at.
Save_call(p, s, v) ==
    /\ Idle(p) /\ s \in slots
    /\ IF ~Encodable(v)
       THEN /\ ret' = [ret EXCEPT ![p] =
                          Result(NewCall("save", s, v), ErrorOf("save_call"), 0)]
            /\ UNCHANGED <<fs, inodes, pc, call, bg, ghost>>
       ELSE /\ pc' = [pc EXCEPT ![p] =
                          IF path_exists(fs, parent(s)) THEN "save_open"
                          ELSE "save_create_dir_all"]
            /\ call' = [call EXCEPT ![p] =
                          [NewCall("save", s, v) EXCEPT
                              !.data = to_string_pretty(v),
                              !.pre = Content(fs, inodes, s)]]
            /\ ret' = [ret EXCEPT ![p] = NoRet]
            /\ ghost' = [ghost EXCEPT ![s] = After(p, Saving)]
            /\ UNCHANGED <<fs, inodes, bg>>
    /\ Called(p)

\* create_dir_all(dir): every missing ancestor becomes a directory.
create_dir_all(fsv, dir) ==
    [q \in Paths |-> IF q \in Ancestors(dir) /\ fsv[q].kind = "absent"
                     THEN Directory ELSE fsv[q]]

\* create_dir_all(path).map_err(Error::CreateParentError)?: an ancestor that
\* is a file makes it fail.
Save_create_dir_all(p) ==
    /\ At(p, "save_create_dir_all")
    /\ LET c == call[p]
           dir == parent(c.slot)
           fs2 == create_dir_all(fs, dir)
       IN  IF \E q \in Ancestors(dir) : fs[q].kind = "file"
           THEN /\ Return(p, fs, inodes, Result(c, ErrorOf(pc[p]), 0))
                /\ ghost' = ghost
           ELSE /\ Goto(p, "save_open", fs2, inodes, [c EXCEPT !.mk = TRUE])
                /\ ghost' = [s \in Slots |->
                                IF fs2[s] # fs[s] THEN Other ELSE ghost[s]]
    /\ UNCHANGED <<seen, ncalls, setup>>

\* OpenOptions::new().write(true).create(true).open(&self.path): no truncate
\* on open, the handle starts at offset 0.  A directory at the path, or no
\* directory above it, is an error.
Save_open(p) ==
    /\ At(p, "save_open")
    /\ LET c == call[p]
           s == c.slot
           i == NewIno(inodes)
       IN  CASE fs[s].kind = "file" ->
                    Goto(p, "save_set_len", fs, inodes,
                         [c EXCEPT !.ino = fs[s].ino,
                                   !.over = Len(inodes[fs[s].ino].data) > Len(c.data)])
             [] fs[s].kind = "absent" /\ fs[parent(s)].kind = "dir" ->
                    Goto(p, "save_set_len", [fs EXCEPT ![s] = RegularFile(i)],
                         [inodes EXCEPT ![i] = [live |-> TRUE, data |-> << >>]],
                         [c EXCEPT !.ino = i])
             [] OTHER -> Return(p, fs, inodes, Result(c, ErrorOf(pc[p]), 0))
    /\ UNCHANGED <<ghost, seen, ncalls, setup>>

\* The values of the saves that have emptied file i and not written all of
\* it yet, caller p's own aside.
Writing(i, p) ==
    {call[q].arg : q \in {q \in procs \ {p} :
                             pc[q] = "save_write_all" /\ call[q].ino = i}}
    \cup {bg[k].arg : k \in {k \in 1..Len(bg) : bg[k].ino = i}}

\* file.set_len(0): the file is emptied; the handle's offset stays.
set_len(inov, i) == [inov EXCEPT ![i].data = << >>]

Save_set_len(p) ==
    /\ At(p, "save_set_len")
    /\ LET w == Writing(call[p].ino, p)
       IN  Goto(p, "save_write_all", fs, set_len(inodes, call[p].ino),
                [call[p] EXCEPT !.conc = IF w = {} THEN << >>
                                         ELSE <<CHOOSE v \in w : TRUE>>])
    /\ UNCHANGED <<ghost, seen, ncalls, setup>>

\* std::io::Write::write_all (sync.rs 62): write(2) until nothing is left;
\* each write takes at least one byte, and is one step others can see.
Save_write_all(p) ==
    /\ At(p, "save_write_all") /\ facade = "sync"
    /\ \E k \in 1..Len(call[p].data) :
          LET c == call[p]
              ino2 == [inodes EXCEPT ![c.ino].data =
                          WriteAt(@, c.off, SubSeq(c.data, 1, k))]
          IN  IF k = Len(c.data)
              THEN /\ Return(p, fs, ino2, Result(c, "Ok", 0))
                   /\ ghost' = [ghost EXCEPT ![c.slot] =
                        IF @.mut = "saving" THEN After(p, Saved(c)) ELSE Other]
              ELSE /\ Goto(p, "save_write_all", fs, ino2,
                           [c EXCEPT !.off = c.off + k,
                                     !.data = SubSeq(c.data, k + 1, Len(c.data))])
                   /\ ghost' = ghost
    /\ UNCHANGED <<seen, ncalls, setup>>

\* tokio::io::AsyncWriteExt::write_all on a tokio::fs::File (async.rs 67,
\* lib.rs 86): the bytes are copied into the file's buffer, the write is
\* handed to the blocking pool and the future is ready at once.  save then
\* returns Ok(()) and drops the file; it does not flush, so nothing waits
\* for the write.
Save_write_all_tokio(p) ==
    /\ At(p, "save_write_all") /\ facade = "async"
    /\ Len(bg) < MaxBg
    /\ LET c == call[p]
       IN  /\ pc' = [pc EXCEPT ![p] = "idle"]
           /\ ret' = [ret EXCEPT ![p] = Result(c, "Ok", 0)]
           /\ Commit(fs, inodes, [call EXCEPT ![p] = NoCall],
                     Append(bg, [ino |-> c.ino, off |-> c.off, data |-> c.data,
                                 arg |-> c.arg]))
           /\ ghost' = [ghost EXCEPT ![c.slot] =
                        IF @.mut = "saving" THEN After(p, Saved(c)) ELSE Other]
    /\ UNCHANGED <<seen, ncalls, setup>>

RemoveAt(seq, i) == SubSeq(seq, 1, i - 1) \o SubSeq(seq, i + 1, Len(seq))

\* The blocking pool performs a write it was handed: write(2) until nothing
\* is left, as above.
Blocking_pool_write ==
    /\ \E i \in 1..Len(bg) : \E k \in 1..Len(bg[i].data) :
          LET w == bg[i]
              ino2 == [inodes EXCEPT ![w.ino].data =
                          WriteAt(@, w.off, SubSeq(w.data, 1, k))]
              bg2 == IF k = Len(w.data) THEN RemoveAt(bg, i)
                     ELSE [bg EXCEPT ![i].off = w.off + k,
                                     ![i].data = SubSeq(w.data, k + 1, Len(w.data))]
          IN  Commit(fs, ino2, call, bg2)
    /\ UNCHANGED <<pc, ret, ghost, seen, ncalls, setup>>

\* A write in the blocking pool fails (a full disk, an I/O error): nobody is
\* left to hear of it, and the rest of its bytes is never written.
Blocking_pool_error ==
    /\ \E i \in 1..Len(bg) :
          /\ Commit(fs, inodes, call, RemoveAt(bg, i))
          /\ ghost' = [s \in Slots |->
                          IF fs[s].kind = "file" /\ fs[s].ino = bg[i].ino
                          THEN Other ELSE ghost[s]]
    /\ UNCHANGED <<pc, ret, seen, ncalls, setup>>

---------------------------------------------------------------------------
(* get: sync.rs 91-100, async.rs 99-109, lib.rs 118-128 *)

Get_call(p, s) ==
    /\ Idle(p) /\ s \in slots
    /\ pc' = [pc EXCEPT ![p] = "get_open"]
    /\ call' = [call EXCEPT ![p] = NewCall("get", s, 0)]
    /\ ret' = [ret EXCEPT ![p] = NoRet]
    /\ UNCHANGED <<fs, inodes, bg, ghost>>
    /\ Called(p)

\* An open that makes the file when it is missing, as save's open does.
Get_open_creates(p) ==
    /\ At(p, "get_open")
    /\ LET c == call[p]
           s == c.slot
           n == NewIno(inodes)
       IN  CASE path_exists(fs, s) ->
                    Goto(p, "get_from_reader", fs, inodes,
                         [c EXCEPT !.ino = fs[s].ino, !.found = TRUE])
             [] ~path_exists(fs, s) /\ fs[parent(s)].kind = "dir" ->
                    Goto(p, "get_from_reader", [fs EXCEPT ![s] = RegularFile(n)],
                         [inodes EXCEPT ![n] = [live |-> TRUE, data |-> << >>]],
                         [c EXCEPT !.ino = n, !.found = TRUE])
             [] OTHER -> Return(p, fs, inodes, Result(c, ErrorOf(pc[p]), 0))
    /\ UNCHANGED <<ghost, seen, ncalls, setup>>

\* OpenOptions::new().read(true).open(&self.path): nothing is created.  A
\* directory opens for reading (Unix); reading it then fails.
Get_open(p) ==
    /\ At(p, "get_open")
    /\ LET c == call[p]
           i == fs[c.slot].ino
           w == Writing(i, p)
       IN  IF path_exists(fs, c.slot)
           THEN Goto(p, "get_from_reader", fs, inodes,
                     [c EXCEPT !.ino = i, !.found = TRUE,
                               !.conc = IF Cardinality(w) = 1
                                        THEN <<CHOOSE v \in w : TRUE>> ELSE << >>])
           ELSE Return(p, fs, inodes, Result(c, ErrorOf(pc[p]), 0))
    /\ UNCHANGED <<ghost, seen, ncalls, setup>>

IsPrefix(a, b) == Len(a) <= Len(b) /\ a = SubSeq(b, 1, Len(a))

\* What a get that ends with r found in a file that a save was writing.
Observed(c, r) ==
    CASE c.conc = << >> -> {}
      [] c.conc # << >> /\ r.buf = << >> -> {"empty"}
      [] c.conc # << >> /\ r.buf # << >> /\ r.res = "Ok" /\ r.val = c.conc[1] ->
             {"complete"}
      [] c.conc # << >> /\ r.buf # << >> /\ r.res # "Ok"
           /\ IsPrefix(r.buf, to_string_pretty(c.conc[1])) -> {"partial"}
      [] OTHER -> {}

\* serde_json::from_reader(file): the reader is the unbuffered file, read
\* byte by byte; the parser stops at the first byte that cannot continue a
\* value, and at the end of the file it has a value or it has not.
\* (async.rs, lib.rs: file.into_std() gives the same std file.)
Get_from_reader(p) ==
    /\ At(p, "get_from_reader")
    /\ LET c == call[p]
           data == IF c.ino = 0 THEN << >> ELSE inodes[c.ino].data
           more == c.ino # 0 /\ c.off < Len(data)
           c2 == IF more
                 THEN [c EXCEPT !.off = c.off + 1,
                                !.buf = Append(c.buf, data[c.off + 1])]
                 ELSE c
           r == IF ~more /\ c.ino # 0 /\ from_reader(c.buf).ok
                THEN Result(c, "Ok", from_reader(c.buf).val)
                ELSE Result(c2, ErrorOf(pc[p]), 0)
       IN  IF more /\ Parse(c2.buf).q # "err"
           THEN Goto(p, "get_from_reader", fs, inodes, c2) /\ seen' = seen
           ELSE Return(p, fs, inodes, r) /\ seen' = seen \cup Observed(c, r)
    /\ UNCHANGED <<ghost, ncalls, setup>>

---------------------------------------------------------------------------
(* exists: sync.rs 124-126, async.rs 135-137, lib.rs 154-156 *)

exists(p, s) ==
    /\ Idle(p) /\ s \in slots
    /\ ret' = [ret EXCEPT ![p] =
                  [Result(NewCall("exists", s, 0), "Ok", 0) EXCEPT
                      !.flag = path_exists(fs, s)]]
    /\ UNCHANGED <<fs, inodes, pc, call, bg, ghost>>
    /\ Called(p)

---------------------------------------------------------------------------
(* remove: sync.rs 151-158, async.rs 164-172; flush: lib.rs 183-191 *)

\* A remove without the check of exists(): it always goes on to remove_file.
Remove_call_unchecked(p, s) ==
    /\ Idle(p) /\ s \in slots
    /\ pc' = [pc EXCEPT ![p] = "remove_file"]
    /\ call' = [call EXCEPT ![p] =
                  [NewCall("remove", s, 0) EXCEPT !.found = path_exists(fs, s)]]
    /\ ret' = [ret EXCEPT ![p] = NoRet]
    /\ ghost' = [ghost EXCEPT ![s] = Other]
    /\ UNCHANGED <<fs, inodes, bg>>
    /\ Called(p)

\* if self.path.exists() { remove_file(..) } else { Ok(()) }
Remove_call(p, s) ==
    /\ Idle(p) /\ s \in slots
    /\ IF path_exists(fs, s)
       THEN /\ pc' = [pc EXCEPT ![p] = "remove_file"]
            /\ call' = [call EXCEPT ![p] =
                          [NewCall("remove", s, 0) EXCEPT !.found = TRUE]]
            /\ ret' = [ret EXCEPT ![p] = NoRet]
            /\ ghost' = [ghost EXCEPT ![s] = Other]
       ELSE /\ ret' = [ret EXCEPT ![p] = Result(NewCall("remove", s, 0), "Ok", 0)]
            /\ ghost' = [ghost EXCEPT ![s] =
                            After(p, IF @.mut = "none" THEN Untouched
                                     ELSE Removed(@))]
            /\ UNCHANGED <<pc, call>>
    /\ UNCHANGED <<fs, inodes, bg>>
    /\ Called(p)

\* A remove_file that reports success and leaves the entry.
remove_file_keeps_entry(fsv, s) == fsv

\* unlink(2): the path names nothing afterwards; the file's bytes stay for
\* those who have it open.
remove_file(fsv, s) == [fsv EXCEPT ![s] = Absent]

\* A delete that takes away whatever the path names, a directory too.
Remove_file_any_entry(p) ==
    /\ At(p, "remove_file")
    /\ LET c == call[p]
       IN  IF path_exists(fs, c.slot)
           THEN /\ Return(p, remove_file(fs, c.slot), inodes, Result(c, "Ok", 0))
                /\ ghost' = [ghost EXCEPT ![c.slot] = After(p, Removed(@))]
           ELSE /\ Return(p, fs, inodes, Result(c, ErrorOf(pc[p]), 0))
                /\ ghost' = ghost
    /\ UNCHANGED <<seen, ncalls, setup>>

\* remove_file(&self.path).map_err(Error::RemoveFileError)?: it removes a
\* file; a directory, or a path that is gone by now, is an error.
Remove_file(p) ==
    /\ At(p, "remove_file")
    /\ LET c == call[p]
       IN  IF fs[c.slot].kind = "file"
           THEN /\ Return(p, remove_file(fs, c.slot), inodes, Result(c, "Ok", 0))
                /\ ghost' = [ghost EXCEPT ![c.slot] = After(p, Removed(@))]
           ELSE /\ Return(p, fs, inodes, Result(c, ErrorOf(pc[p]), 0))
                /\ ghost' = ghost
    /\ UNCHANGED <<seen, ncalls, setup>>

---------------------------------------------------------------------------
(* Cancellation: async.rs, lib.rs *)

\* The task awaiting an operation of an async facade is cancelled: the
\* future is dropped at the .await it stands at, the step it was about to
\* take and those after it never happen, nothing is undone and nothing is
\* returned.
Cancel(p) ==
    /\ p \in procs /\ pc[p] # "idle"
    /\ facade = "async"
    /\ pc' = [pc EXCEPT ![p] = "idle"]
    /\ ret' = [ret EXCEPT ![p] = NoRet]
    /\ Commit(fs, inodes, [call EXCEPT ![p] = NoCall], bg)
    /\ ghost' = IF call[p].op = "save"
                THEN [ghost EXCEPT ![call[p].slot] = Cancelled(call[p], pc[p])]
                ELSE ghost
    /\ UNCHANGED <<seen, ncalls, setup>>

---------------------------------------------------------------------------
(* The environment *)

\* The operating system fails the system call a caller is about to make
\* (permissions, a full disk, an I/O error).  tokio's write_all has made no
\* system call when it returns, so it has nothing to fail with.
Io_error(p) ==
    /\ p \in procs /\ pc[p] # "idle"
    /\ ~(pc[p] = "save_write_all" /\ facade = "async")
    /\ Return(p, fs, inodes, [Result(call[p], ErrorOf(pc[p]), 0) EXCEPT !.io = TRUE])
    /\ ghost' = IF call[p].op = "save"
                THEN [ghost EXCEPT ![call[p].slot] = Other]
                ELSE ghost
    /\ UNCHANGED <<seen, ncalls, setup>>

\* Bytes another program puts at a path: not JSON, and the JSON of a value.
ForeignContents == {<<"x">>, to_string_pretty(11)}

\* Another program writes the slot's file directly.
Foreign_write(s, bytes) ==
    /\ s \in slots
    /\ \A p \in procs : pc[p] = "idle"
    /\ LET i == NewIno(inodes)
       IN  CASE fs[s].kind = "file" ->
                    Commit(fs, [inodes EXCEPT ![fs[s].ino].data = bytes], call, bg)
             [] fs[s].kind = "absent" /\ fs[parent(s)].kind = "dir" ->
                    Commit([fs EXCEPT ![s] = RegularFile(i)],
                           [inodes EXCEPT ![i] = [live |-> TRUE, data |-> bytes]],
                           call, bg)
             [] OTHER -> FALSE
    /\ ghost' = [ghost EXCEPT ![s] = Other]
    /\ UNCHANGED <<pc, ret, seen, ncalls, setup>>

---------------------------------------------------------------------------
(* Specifications *)

InitOf(P, S, F, L) ==
    /\ fs = [q \in Paths |-> IF q = TmpDir THEN Directory ELSE Absent]
    /\ inodes = [i \in Inos |-> FreeInode]
    /\ pc = [p \in AllProcs |-> "idle"]
    /\ call = [p \in AllProcs |-> NoCall]
    /\ ret = [p \in AllProcs |-> NoRet]
    /\ bg = << >>
    /\ ghost = [s \in Slots |-> Untouched]
    /\ seen = {}
    /\ procs = P
    /\ slots = S
    /\ facade \in F
    /\ ncalls = [p \in AllProcs |-> 0]
    /\ limit = L

Calls(p) ==
    \E s \in Slots :
        \/ \E v \in Payloads : Save_call(p, s, v)
        \/ Get_call(p, s)
        \/ exists(p, s)
        \/ Remove_call(p, s)

Steps(p) ==
    \/ Save_create_dir_all(p)
    \/ Save_open(p)
    \/ Save_set_len(p)
    \/ Save_write_all(p)
    \/ Save_write_all_tokio(p)
    \/ Get_open(p)
    \/ Get_from_reader(p)
    \/ Remove_file(p)

Pool ==
    \/ Blocking_pool_write
    \/ Blocking_pool_error

Env == \E s \in Slots, bytes \in ForeignContents : Foreign_write(s, bytes)

\* One caller with one slot at /tmp/szafka/subdir/file, one call at a time,
\* in a program built on either facade.
Init == InitOf({1}, {FilePath}, Facades, 0)

Next ==
    \/ \E p \in AllProcs : Calls(p) \/ Steps(p) \/ Io_error(p) \/ Cancel(p)
    \/ Pool
    \/ Env

Spec == Init /\ [][Next]_vars

\* Two callers, each with its own handle on the same path, each making up
\* to MaxCalls calls that may overlap in any way.
InitConc == InitOf({1, 2}, {FilePath}, Facades, MaxCalls)

\* The callers and the pool alone: no system call fails and no other
\* program touches the file, so that what is seen is the callers' doing.
NextConc ==
    \/ \E p \in AllProcs : Calls(p) \/ Steps(p)
    \/ Blocking_pool_write

SpecConc == InitConc /\ [][NextConc]_vars

\* One caller with two slots, one at /tmp/szafka/subdir and one at
\* /tmp/szafka/subdir/file below it, making up to MaxDirCalls calls.
InitDir == InitOf({1}, Slots, Facades, MaxDirCalls)

SpecDir == InitDir /\ [][NextConc]_vars

---------------------------------------------------------------------------
(* Properties *)

\* The history of slot s's path says its last event is a save that
\* returned Ok, with nothing on the path since.
LastWasSave(s) == ghost[s].mut = "save"

\* r is what a get returned that no failing system call cut short.
GetReturned(r) == r.op = "get" /\ ~r.io

\* r is what a save returned whose payload has no encoding.
EncodeFailed(r) == r.op = "save" /\ ~Encodable(r.arg)

\* r is what a get returned that opened and read the file and found no
\* value in it.
DecodeFailed(r) == r.op = "get" /\ r.found /\ ~r.io /\ r.res # "Ok"

\* C1 - round trip: a get that follows a save which returned Ok, nothing
\* else having touched the path in between, returns Ok with the value saved,
\* on whichever facade.
C1_RoundTrip ==
    \A p \in procs :
        (GetReturned(ret[p]) /\ LastWasSave(ret[p].slot))
            => (ret[p].res = "Ok" /\ ret[p].val = ghost[ret[p].slot].val)

\* C1 on the blocking facade alone, where it holds.
C1_RoundTripBlocking == facade = "sync" => C1_RoundTrip

C1_Witness ==
    /\ facade = "sync"
    /\ GetReturned(ret[1]) /\ LastWasSave(FilePath)
    /\ ret[1].res = "Ok" /\ ret[1].val = 10

\* C2 - overwrite exactness: whenever the last event on the path is a save
\* that returned Ok, the file holds exactly the encoding of the value saved,
\* nothing left of what it held before.
C2_OverwriteExact ==
    \A s \in slots :
        LastWasSave(s) => Content(fs, inodes, s) = to_string_pretty(ghost[s].val)

\* C2 on the blocking facade alone, where it holds.
C2_OverwriteExactBlocking == facade = "sync" => C2_OverwriteExact

\* The save wrote over a file that was longer than its encoding.
C2_Witness ==
    /\ facade = "sync"
    /\ LastWasSave(FilePath) /\ ghost[FilePath].over
    /\ Content(fs, inodes, FilePath) = to_string_pretty(1)

\* C3 - exists: with one caller on a path that starts absent, and the last
\* operations on it all successful, exists() answers true exactly when the
\* last one to change the path was a save: false before any save, true after
\* a save, false after a remove.
C3_ExistsIffSaved ==
    \A p \in procs :
        (ret[p].op = "exists" /\ ghost[ret[p].slot].mut \in {"none", "save", "remove"})
            => (ret[p].flag <=> LastWasSave(ret[p].slot))

C3_Witness ==
    /\ ret[1].op = "exists" /\ ~ret[1].flag
    /\ ghost[FilePath].mut = "remove"

\* C4 - idempotent delete: a remove()/flush() called when the path is absent
\* returns Ok at once and changes nothing on disk, so the path is still
\* absent after it, however many times it is called in a row.
C4_RemoveIdempotent ==
    [][\A p \in AllProcs, s \in Slots :
          (Remove_call(p, s) /\ ~path_exists(fs, s))
              => /\ pc'[p] = "idle"
                 /\ ret'[p].op = "remove" /\ ret'[p].res = "Ok"
                 /\ fs' = fs /\ inodes' = inodes
                 /\ ~path_exists(fs', s)]_vars

\* The second remove in a row has returned Ok.
C4_Witness ==
    /\ ghost[FilePath].mut = "remove" /\ ghost[FilePath].val = 2
    /\ ret[1].op = "remove" /\ ret[1].res = "Ok" /\ ~ret[1].found
    /\ ~path_exists(fs, FilePath)

\* C5 - save makes the missing directories: after a save that found no
\* parent directory and returned Ok, a get returns the value saved.
C5_GetAfterSaveWithoutParent ==
    \A p \in procs :
        (GetReturned(ret[p]) /\ LastWasSave(ret[p].slot) /\ ghost[ret[p].slot].mk)
            => (ret[p].res = "Ok" /\ ret[p].val = ghost[ret[p].slot].val)

\* The part of C5 that holds on every facade: a save that finds no parent
\* directory has made every ancestor a directory by the time it opens the
\* file, returns Ok unless a system call fails, and the path exists after.
C5_ParentsMadeBeforeOpen ==
    /\ \A p \in procs :
          (call[p].op = "save" /\ call[p].mk)
              => \A q \in Ancestors(parent(call[p].slot)) : fs[q].kind = "dir"
    /\ \A p \in procs :
          (ret[p].op = "save" /\ ret[p].mk /\ ~ret[p].io) => ret[p].res = "Ok"
    /\ \A s \in slots :
          (LastWasSave(s) /\ ghost[s].mk) => path_exists(fs, s)

C5_Witness ==
    /\ LastWasSave(FilePath) /\ ghost[FilePath].mk
    /\ ret[1].op = "exists" /\ ret[1].flag
    /\ fs[SubdirPath].kind = "dir" /\ fs[SzafkaDir].kind = "dir"

\* C6 - get on nothing: a get on a path never saved, or saved and then
\* removed, returns OpenFileError; a get that opened the file and could not
\* decode what it read returns another kind, SerdeError; neither returns a
\* value.
C6_GetOnAbsent ==
    \A p \in procs :
        /\ (GetReturned(ret[p]) /\ ghost[ret[p].slot].mut \in {"none", "remove"})
              => (ret[p].res = "OpenFileError" /\ ret[p].val = 0)
        /\ DecodeFailed(ret[p])
              => (ret[p].res = "SerdeError" /\ ret[p].val = 0)

C6_Witness ==
    /\ GetReturned(ret[1]) /\ ghost[FilePath].mut = "remove"
    /\ ret[1].res = "OpenFileError"

\* C7 - as stated: the kind a save returns for a payload that cannot be
\* encoded differs from the kind a get returns for content that cannot be
\* decoded.
C7_KindsDiffer ==
    \A p \in procs, q \in procs :
        (EncodeFailed(ret[p]) /\ DecodeFailed(ret[q])) => ret[p].res # ret[q].res

\* C7 - as the code has it: the Error enum has one variant for both, so an
\* encoding failure and a decoding failure return the same kind, SerdeError,
\* which is none of the kinds of the two opens.
C7_OneSerdeKind ==
    \A p \in procs, q \in procs :
        (EncodeFailed(ret[p]) /\ DecodeFailed(ret[q]))
            => /\ ret[p].res = "SerdeError"
               /\ ret[q].res = "SerdeError"
               /\ "SerdeError" \in Error
               /\ "SerdeError" # ErrorOf("get_open")

C7_Witness ==
    EncodeFailed(ret[1]) /\ DecodeFailed(ret[2]) /\ ret[2].buf # << >>

\* C8 - facade equivalence: a save of any facade that returns Ok has done
\* what the blocking facade's save has done when it returns Ok: all its
\* steps, the write included, so that the path holds exactly the encoded
\* value and nothing of the call is still to happen.
C8_SaveDoneOnReturn ==
    [][\A p \in AllProcs :
          (p \in procs /\ pc[p] = "save_write_all" /\ pc'[p] = "idle"
             /\ ret'[p].res = "Ok")
              => /\ bg' = << >>
                 /\ Content(fs', inodes', call[p].slot) = to_string_pretty(call[p].arg)]_vars

\* The blocking facade is the reference: its save is done when it returns.
C8_SaveDoneOnReturnBlocking ==
    [][facade = "sync" =>
          \A p \in AllProcs :
              (p \in procs /\ pc[p] = "save_write_all" /\ pc'[p] = "idle"
                 /\ ret'[p].res = "Ok")
                  => /\ bg' = << >>
                     /\ Content(fs', inodes', call[p].slot) = to_string_pretty(call[p].arg)]_vars

C8_Witness ==
    /\ facade = "sync"
    /\ ret[1].op = "save" /\ ret[1].res = "Ok" /\ ret[1].mk
    /\ Content(fs, inodes, FilePath) = to_string_pretty(ret[1].arg)

\* Each caller has made one call, a save of the slot, both have returned Ok
\* and every write has been carried out.
BothSaved(s) ==
    /\ \A p \in procs :
          /\ ncalls[p] = 1 /\ pc[p] = "idle"
          /\ ret[p].op = "save" /\ ret[p].slot = s /\ ret[p].res = "Ok"
    /\ bg = << >>
    /\ LastWasSave(s)

C10_EmptyIsDecodeError ==
    \A p \in procs :
        (ret[p].op = "get" /\ ret[p].found /\ ~ret[p].io /\ ret[p].buf = << >>)
            => (ret[p].res = "SerdeError" /\ ret[p].val = 0)

C10_Witness ==
    /\ seen = {"empty", "partial", "complete"}
    /\ \E p \in procs :
          ret[p].op = "get" /\ ret[p].found /\ ret[p].buf = << >>

\* C11 - concurrent deletes: with no system call failing for another reason,
\* every remove()/flush() returns Ok, also when another call deleted the
\* file between its check of exists() and its remove_file.
C11_RemoveAlwaysOk ==
    \A p \in procs : ret[p].op = "remove" => ret[p].res = "Ok"

\* The part of C11 that holds: a remove that finds the path absent at its
\* check returns Ok; RemoveFileError comes only from a remove_file that was
\* attempted.
C11_ErrorOnlyFromRemoveFile ==
    \A p \in procs :
        (ret[p].op = "remove" /\ ret[p].res # "Ok")
            => (ret[p].found /\ ret[p].res = "RemoveFileError")

\* Two removes found the file; one deleted it, the other failed on it.
C11_Witness ==
    /\ ret[1].op = "remove" /\ ret[1].found /\ ret[1].res = "Ok"
    /\ ret[2].op = "remove" /\ ret[2].found /\ ret[2].res = "RemoveFileError"
    /\ ~path_exists(fs, FilePath)

\* C12 - cancellation: a save of an async facade dropped after its truncate
\* and before its write leaves everything as it is, which is the path
\* present and the file empty.
C12_CancelLeavesEmptyFile ==
    [][\A p \in AllProcs :
          (Cancel(p) /\ call[p].op = "save" /\ pc[p] = "save_write_all")
              => /\ fs' = fs
                 /\ path_exists(fs', call[p].slot)
                 /\ Content(fs', inodes', call[p].slot) = << >>]_vars

\* The part of C12 that holds: a cancelled call undoes nothing and does
\* nothing more, whatever step it is dropped at: every path holds what it
\* held; and a save dropped after its truncate leaves the path present and
\* the file empty when no write of an earlier save was outstanding at the
\* truncate.
C12_CancelNeverRollsBack ==
    [][\A p \in AllProcs :
          Cancel(p)
              => /\ fs' = fs
                 /\ \A q \in Paths : Content(fs', inodes', q) = Content(fs, inodes, q)
                 /\ call'[p] = NoCall
                 /\ (call[p].op = "save" /\ pc[p] = "save_write_all"
                       /\ call[p].conc = << >>)
                        => /\ path_exists(fs', call[p].slot)
                           /\ Content(fs', inodes', call[p].slot) = << >>]_vars

\* A save was dropped between truncate and write; the file had held more
\* than the new encoding, and is there and empty.
C12_Witness ==
    /\ ghost[FilePath].mut = "cancel" /\ ghost[FilePath].at = "save_write_all"
    /\ ghost[FilePath].over
    /\ path_exists(fs, FilePath) /\ Content(fs, inodes, FilePath) = << >>

\* Caller p's save returns in this step, after one of its system calls.
SaveReturns(p) ==
    /\ p \in procs
    /\ call[p].op = "save" /\ call'[p].op = "none" /\ ret'[p].op = "save"

\* Caller p's save returns in this step for want of an encoding.
SaveRefused(p) ==
    /\ p \in procs
    /\ pc[p] = "idle" /\ pc'[p] = "idle"
    /\ ret'[p].op = "save" /\ ret'[p] # ret[p]

\* What save may leave when it returns from step `step` with an error: the
\* bytes as they were before the call (also: a new, empty file), or, once it
\* is writing, a proper prefix of the new encoding.
FailureWindow(step, d, pre, enc) ==
    IF step = "save_write_all" THEN IsPrefix(d, enc) /\ d # enc ELSE d = pre

\* C13 - no partial success: when save returns Ok the file holds exactly
\* the new encoding; when it returns an error the file is as before the
\* call, new and empty, emptied, or a proper prefix of the new encoding.
C13_NoPartialSuccess ==
    [][\A p \in AllProcs :
          /\ SaveReturns(p) =>
                LET d == Content(fs', inodes', call[p].slot)
                    enc == to_string_pretty(call[p].arg)
                IN  IF ret'[p].res = "Ok" THEN d = enc
                    ELSE FailureWindow(pc[p], d, call[p].pre, enc)
          /\ SaveRefused(p) => (fs' = fs /\ inodes' = inodes)]_vars

\* C13 on the blocking facade alone, where it holds.
C13_NoPartialSuccessBlocking ==
    [][facade = "sync" =>
          \A p \in AllProcs :
              /\ SaveReturns(p) =>
                    LET d == Content(fs', inodes', call[p].slot)
                        enc == to_string_pretty(call[p].arg)
                    IN  IF ret'[p].res = "Ok" THEN d = enc
                        ELSE FailureWindow(pc[p], d, call[p].pre, enc)
              /\ SaveRefused(p) => (fs' = fs /\ inodes' = inodes)]_vars

\* A save failed in the middle of its write and left a part of its encoding.
C13_Witness ==
    /\ facade = "sync"
    /\ ret[1].op = "save" /\ ret[1].res = "WriteFileError"
    /\ ghost[FilePath].mut = "other"
    /\ Content(fs, inodes, FilePath) = <<"{", "1">>

\* Caller p's get returns in this step.
GetReturns(p) ==
    /\ p \in procs
    /\ call[p].op = "get" /\ call'[p].op = "none" /\ ret'[p].op = "get"

\* C14 - no state in the handle, across handles: a get through one handle
\* that follows a save which returned Ok through another handle on the same
\* path returns the value saved.
C14_SavedHereReadThere ==
    [][\A p \in AllProcs, q \in AllProcs :
          (/\ p # q /\ q \in procs /\ GetReturns(p)
           /\ \A o \in procs \ {p} : pc[o] = "idle"
           /\ LastWasSave(call[p].slot)
           /\ ret[q].op = "save" /\ ret[q].res = "Ok"
           /\ ret[q].slot = call[p].slot /\ ret[q].arg = ghost[call[p].slot].val)
              => (ret'[p].res = "Ok" /\ ret'[p].val = ret[q].arg)]_vars

\* The part of C14 that holds: what get and exists return is read from the
\* path in that call, whatever the handle did before.  A get that could not
\* open the path found nothing there; a get whose bytes read are what the
\* file holds returns what these bytes decode to; exists answers whether
\* something is at the path.  With the blocking facade a get through one
\* handle returns the value last saved through another.
C14_ReadsThePath ==
    [][\A p \in AllProcs :
          /\ \A q \in procs \ {p} :
                (/\ facade = "sync" /\ GetReturns(p)
                 /\ \A o \in procs \ {p} : pc[o] = "idle"
                 /\ LastWasSave(call[p].slot)
                 /\ ret[q].op = "save" /\ ret[q].res = "Ok"
                 /\ ret[q].slot = call[p].slot
                 /\ ret[q].arg = ghost[call[p].slot].val)
                    => (ret'[p].res = "Ok" /\ ret'[p].val = ret[q].arg)
          /\ (GetReturns(p) /\ ~ret'[p].found)
                => (ret'[p].res = "OpenFileError" /\ ~path_exists(fs, call[p].slot))
          /\ (GetReturns(p) /\ ret'[p].found
                /\ IsPrefix(ret'[p].buf, Content(fs, inodes, call[p].slot)))
                => LET r == from_reader(Content(fs, inodes, call[p].slot))
                   IN  IF r.ok THEN ret'[p].res = "Ok" /\ ret'[p].val = r.val
                       ELSE ret'[p].res = "SerdeError"
          /\ \A s \in Slots :
                exists(p, s) => (ret'[p].flag <=> path_exists(fs, s))]_vars

\* One handle saved 10, the other handle's get returned 10.
C14_Witness ==
    /\ ret[1].op = "save" /\ ret[1].res = "Ok" /\ ret[1].arg = 10
    /\ ret[2].op = "get" /\ ret[2].res = "Ok" /\ ret[2].val = 10
    /\ LastWasSave(FilePath)

\* The steps of caller p's save as this step of the system shows them: what
\* follows what, what each step leaves on disk, and what a failing step
\* returns.
SaveStepsInOrder(p) ==
    LET s == call[p].slot
        was == Content(fs, inodes, s)
        now == Content(fs', inodes', s)
    IN  /\ SaveRefused(p) =>
              (ret'[p].res = "SerdeError" /\ fs' = fs /\ inodes' = inodes)
        /\ (p \in procs /\ pc[p] = "idle" /\ call'[p].op = "save") =>
              /\ fs' = fs /\ inodes' = inodes
              /\ pc'[p] = IF path_exists(fs, parent(call'[p].slot))
                          THEN "save_open" ELSE "save_create_dir_all"
        /\ At(p, "save_create_dir_all") =>
              /\ pc'[p] \in {"save_create_dir_all", "save_open", "idle"}
              /\ pc'[p] = "save_open" =>
                    (path_exists(fs', parent(s)) /\ fs'[s] = fs[s])
        /\ At(p, "save_open") =>
              /\ pc'[p] \in {"save_open", "save_set_len", "idle"}
              /\ pc'[p] = "save_set_len" =>
                    /\ fs'[s].kind = "file"
                    /\ now = IF path_exists(fs, s) THEN was ELSE << >>
        /\ At(p, "save_set_len") =>
              /\ pc'[p] \in {"save_set_len", "save_write_all", "idle"}
              /\ pc'[p] = "save_write_all" => (fs' = fs /\ now = << >>)
        /\ At(p, "save_write_all") =>
              /\ pc'[p] \in {"save_write_all", "idle"}
              /\ fs' = fs
        /\ (SaveReturns(p) /\ ret'[p].res # "Ok") =>
              /\ ret'[p].res =
                   CASE pc[p] = "save_create_dir_all" -> "CreateParentError"
                     [] pc[p] = "save_open" -> "OpenFileError"
                     [] pc[p] = "save_set_len" -> "ChangeFileLengthError"
                     [] pc[p] = "save_write_all" -> "WriteFileError"
              /\ fs' = fs
              /\ \A q \in Paths : Content(fs', inodes', q) = Content(fs, inodes, q)
        /\ (SaveReturns(p) /\ ret'[p].res = "Ok") => pc[p] = "save_write_all"

\* C15 - the steps of save: encode, make the parent directories only if the
\* parent is missing, open without truncating, truncate, write, in this
\* order and once each; the first step to fail ends the call with its own
\* kind of error and nothing after it runs; a value that does not encode
\* leaves the disk alone.  A write that fails is the write of a running
\* save, which returns WriteFileError.
C15_StepsInOrder ==
    [][/\ \A p \in AllProcs : SaveStepsInOrder(p)
       /\ Blocking_pool_error =>
             \E p \in procs : /\ At(p, "save_write_all")
                              /\ ret'[p].op = "save"
                              /\ ret'[p].res = "WriteFileError"]_vars

\* The part of C15 that holds on every facade: the order of the steps, what
\* each leaves on disk, and the kind of error of each step that the call
\* itself sees fail.
C15_StepsInOrderSeen == [][\A p \in AllProcs : SaveStepsInOrder(p)]_vars

\* A save made the directories and opened a new file, and ended at the
\* truncation with that step's kind of error: the file is there, empty.
C15_Witness ==
    /\ ret[1].op = "save" /\ ret[1].res = "ChangeFileLengthError"
    /\ ret[1].mk /\ ret[1].io
    /\ path_exists(fs, FilePath) /\ Content(fs, inodes, FilePath) = << >>

\* C16 - in the suspension facade every I/O step of save, get and remove is
\* a point where the calling task yields: a caller about to take a step is
\* about to await it.
C16_EveryStepSuspends ==
    \A p \in procs : (facade = "async" /\ pc[p] # "idle") => Awaited(pc[p])

\* The part of C16 that holds: every step of save and of remove, and the
\* open of get, is awaited.
C16_SaveRemoveOpenSuspend ==
    \A p \in procs :
        (/\ facade = "async" /\ pc[p] # "idle"
         /\ (call[p].op \in {"save", "remove"} \/ pc[p] = "get_open"))
            => Awaited(pc[p])

\* A save of the suspension facade has truncated the file and is about to
\* await its write.
C16_Witness ==
    /\ facade = "async" /\ call[1].op = "save" /\ pc[1] = "save_write_all"
    /\ Content(fs, inodes, FilePath) = << >>

\* C17 - the operations that read leave the disk alone: a step of get,
\* returning a value or an error, and exists create no file and no
\* directory and change no file's bytes; a get that finds nothing at the
\* path leaves nothing there.
C17_ReadsLeaveDisk ==
    [][\A p \in AllProcs :
          /\ (\/ p \in procs /\ call[p].op = "get" /\ call'[p] # call[p]
              \/ p \in procs /\ call[p].op = "none" /\ call'[p].op = "get"
              \/ Get_open(p) \/ Get_from_reader(p)
              \/ \E s \in Slots : exists(p, s))
                => /\ fs' = fs
                   /\ \A q \in Paths :
                        Content(fs', inodes', q) = Content(fs, inodes, q)
          /\ (Get_open(p) /\ ~path_exists(fs, call[p].slot))
                => /\ ret'[p].op = "get" /\ ret'[p].res = "OpenFileError"
                   /\ ~path_exists(fs', call[p].slot)]_vars

\* A get found no file in a directory that is there, and no file is there
\* after it.
C17_Witness ==
    /\ ret[1].op = "get" /\ ret[1].res = "OpenFileError" /\ ~ret[1].io
    /\ path_exists(fs, SubdirPath) /\ ~path_exists(fs, FilePath)

\* Callers p and q are the only ones to have called, both are back, p's
\* last call a save and q's a remove, both with Ok.
SaveAndRemoveDone(p, q) ==
    /\ p \in procs /\ q \in procs /\ p # q
    /\ \A o \in procs : pc[o] = "idle" /\ (o \notin {p, q} => ncalls[o] = 0)
    /\ ret[p].op = "save" /\ ret[p].res = "Ok"
    /\ ret[q].op = "remove" /\ ret[q].res = "Ok"
    /\ ret[p].slot = ret[q].slot

\* C18 - a save and a remove of one path that both returned Ok leave the
\* path absent or holding exactly the encoding of the value saved, never an
\* empty or a partly written file.
C18_AbsentOrComplete ==
    \A p \in AllProcs, q \in AllProcs :
        SaveAndRemoveDone(p, q) =>
            \/ ~path_exists(fs, ret[p].slot)
            \/ Content(fs, inodes, ret[p].slot) = to_string_pretty(ret[p].arg)

\* C18 where it holds: with the blocking facade, and with the other once
\* the blocking pool has done the write of the one save there was.
C18_AbsentOrCompleteWritten ==
    \A p \in AllProcs, q \in AllProcs :
        (/\ facade = "sync" \/ (bg = << >> /\ ncalls[p] = 1 /\ ncalls[q] = 1)
         /\ SaveAndRemoveDone(p, q)) =>
            \/ ~path_exists(fs, ret[p].slot)
            \/ Content(fs, inodes, ret[p].slot) = to_string_pretty(ret[p].arg)

\* One save and one remove ran together: the remove found the file the save
\* had made and deleted it, the save returned Ok after that, and nothing is
\* at the path.
C18_Witness ==
    /\ facade = "sync" /\ ncalls[1] = 1 /\ ncalls[2] = 1
    /\ SaveAndRemoveDone(1, 2) /\ ret[2].found
    /\ ghost[FilePath].mut = "other"
    /\ ~path_exists(fs, FilePath)

=============================================================================
